---- MODULE Spec2Model ----
(***************************************************************************)
(* A model of simple_3d_graphics: the piecewise motion function of         *)
(* MotionMap (models.py), the keyed registry ModelManager (manager.py),    *)
(* the Space frame with its cached inverse (models.py, linalg.py), a Model *)
(* with its vertices and faces (models.py), and the clipping and depth     *)
(* ordering of Scene (scene.py).                                           *)
(*                                                                         *)
(* Python's None is the empty tuple; positions, orientations and vectors   *)
(* are 3-tuples of integers; Python indices are kept 0-based and turned    *)
(* into 1-based sequence indices where a sequence is read.                 *)
(***************************************************************************)
EXTENDS Integers, Sequences, FiniteSets, TLC

VARIABLES
    times_in,   \* the `times` argument of MotionMap._piecewise
    vals_in,    \* the `vals` argument of MotionMap._piecewise
    pw,         \* the closure v: its captured times, vals and last_idx[0]
    pw_t,       \* the argument of the latest call v(t)
    pw_out,     \* what the latest call v(t) returned
    pw_asked,   \* TRUE once v has been called
    pw_mono,    \* TRUE while every call so far had t >= the call before it
    space,      \* a Space: its _basis, _translation and _inverse
    space_op,   \* the latest operation on the Space
    space_err,  \* the exception the latest operation raised, or "none"
    _models,    \* ModelManager._models: a function from the keys present
    _motions,   \* ModelManager._motions: a dict, kept in insertion order
    mgr_op,     \* the latest ModelManager call: its name and key, and
                \* whether the key had a motion when the call began
    mgr_err,    \* the exception the latest ModelManager call raised, or "none"
    model,      \* a Model: its _vertices, _faces and _space
    model_in,   \* the `vertices` argument the Model was constructed with
    model_op,   \* the latest operation on the Model
    model_err,  \* the exception the latest operation raised, or "none"
    clip_call,  \* a call of Scene._clip: arguments and result
    draw_call   \* a call of Scene._draw_models: the camera, the models the
                \* manager lists, and the faces drawn, in the order drawn

pwVars == <<times_in, vals_in, pw, pw_t, pw_out, pw_asked, pw_mono>>
spaceVars == <<space, space_op, space_err>>
mgrVars == <<_models, _motions, mgr_op, mgr_err>>
modelVars == <<model, model_in, model_op, model_err>>
sceneVars == <<clip_call, draw_call>>
vars == <<pwVars, spaceVars, mgrVars, modelVars, sceneVars>>

-----------------------------------------------------------------------------
(* Bounds of the model *)

\* largest number of samples of a piecewise motion
MaxLen == 3
\* sample times lie in 0..MaxTime, queries in -1..MaxTime+1
MaxTime == 3

None == <<>>

\* the states (positions) a sample can hold
SampleValues == {<<0, 0, 0>>, <<5, 0, 0>>, <<5, 5, 0>>}

QueryTimes == (0 - 1)..(MaxTime + 1)

SeqsUpTo(S, n) == UNION {[1..k -> S] : k \in 0..n}

StrictlyIncreasing(s) == \A i \in 1..(Len(s) - 1) : s[i] < s[i + 1]

TimeLists == {s \in SeqsUpTo(0..MaxTime, MaxLen) : StrictlyIncreasing(s)}

ValueLists == SeqsUpTo(SampleValues, MaxLen)

-----------------------------------------------------------------------------
(* linalg.py.  A matrix is the sequence of its rows.  Floats are integers;  *)
(* an angle is a number of quarter turns, where cos and sin are exact.     *)
(* A vector handed in as a basis vector is a record [c, sub]: the integer  *)
(* triple c, scaled (sub = TRUE) by a positive float factor so small that  *)
(* the vector's length is below ORTH_EPSILON, such as 1.0e-10.             *)

XAXIS == <<1, 0, 0>>
YAXIS == <<0, 1, 0>>
ZAXIS == <<0, 0, 1>>

\* a float vector with no sub-tolerance scale
Exact(c) == [c |-> c, sub |-> FALSE]

\* the sequence f with every element evaluated
AsTuple(f) == f \o <<>>

RECURSIVE SumTo(_, _)
SumTo(f, n) == IF n = 0 THEN 0 ELSE f[n] + SumTo(f, n - 1)

\* np.matmul on 2-D arrays
matmul(A, B) ==
    AsTuple([i \in 1..Len(A) |->
        AsTuple([j \in 1..Len(B[1]) |->
            SumTo(AsTuple([k \in 1..Len(B) |-> A[i][k] * B[k][j]]), Len(B))])])

\* np.hstack of a sequence of arrays with equal row counts
RECURSIVE hstack(_)
hstack(ms) ==
    IF Len(ms) = 1 THEN ms[1]
    ELSE LET rest == hstack(Tail(ms))
         IN  AsTuple([i \in 1..Len(ms[1]) |-> ms[1][i] \o rest[i]])

\* np.vstack of two arrays with equal column counts
vstack(A, B) == A \o B

\* column j (0-based) of the first three rows: M[:3, j]
Col3(M, j) == <<M[1][j + 1], M[2][j + 1], M[3][j + 1]>>

\* vector(vec): a 3x1 column
vector(vec) == <<<<vec[1]>>, <<vec[2]>>, <<vec[3]>>>>

\* vector(vec, w): a 4x1 column with the w-value appended
vector_w(vec, w) == vstack(vector(vec), <<<<w>>>>)

\* vector_matrix(vectors, w): a 4xn matrix of column vectors
vector_matrix(vectors, w) ==
    hstack(AsTuple([i \in 1..Len(vectors) |-> vector_w(vectors[i], w)]))

Sign(n) == IF n > 0 THEN 1 ELSE IF n < 0 THEN 0 - 1 ELSE 0

\* vector(v) / np.linalg.norm(v) for a non-zero vector along one axis: the
\* scale cancels, each component is divided by the one non-zero magnitude
unit_vector(bv) == vector(<<Sign(bv.c[1]), Sign(bv.c[2]), Sign(bv.c[3])>>)

\* unit_vector_matrix(vectors, w): a 4x3 matrix of normalized columns
unit_vector_matrix(vectors, w) ==
    vstack(hstack(AsTuple([i \in 1..Len(vectors) |-> unit_vector(vectors[i])])),
           <<AsTuple([j \in 1..Len(vectors) |-> w])>>)

Cos(q) == CASE q % 4 = 0 -> 1 [] q % 4 = 2 -> 0 - 1 [] OTHER -> 0
Sin(q) == CASE q % 4 = 1 -> 1 [] q % 4 = 3 -> 0 - 1 [] OTHER -> 0

\* rotation_matrix(point, direction, angle)
rotation_matrix(point, direction, angle) ==
    LET a == point[1]
        b == point[2]
        c == point[3]
        u == direction[1]
        dv == direction[2]
        w == direction[3]
        cs == Cos(angle)
        sn == Sin(angle)
    IN  << << u*u + (dv*dv + w*w)*cs,
              u*dv*(1 - cs) - w*sn,
              u*w*(1 - cs) + dv*sn,
              (a*(dv*dv + w*w) - u*(b*dv + c*w))*(1 - cs) + (b*w - c*dv)*sn >>,
           << u*dv*(1 - cs) + w*sn,
              dv*dv + (u*u + w*w)*cs,
              dv*w*(1 - cs) - u*sn,
              (b*(u*u + w*w) - dv*(a*u + c*w))*(1 - cs) + (c*u - a*w)*sn >>,
           << u*w*(1 - cs) - dv*sn,
              dv*w*(1 - cs) + u*sn,
              w*w + (u*u + dv*dv)*cs,
              (c*(u*u + dv*dv) - w*(a*u + b*dv))*(1 - cs) + (a*dv - b*u)*sn >>,
           << 0, 0, 0, 1 >> >>

\* np.identity(n)
identity(n) ==
    AsTuple([i \in 1..n |-> AsTuple([j \in 1..n |-> IF i = j THEN 1 ELSE 0])])

\* translation_matrix(dx, dy, dz)
translation_matrix(dx, dy, dz) ==
    hstack(<<vstack(identity(3), <<<<0, 0, 0>>>>), vector_w(<<dx, dy, dz>>, 1)>>)

\* np.cross on two 3-vectors
cross(x, y) ==
    <<x[2]*y[3] - x[3]*y[2], x[3]*y[1] - x[1]*y[3], x[1]*y[2] - x[2]*y[1]>>

\* what a float vector contributes to a length compared with ORTH_EPSILON:
\* nothing when it is scaled below the tolerance
Std(bv) == IF bv.sub THEN <<0, 0, 0>> ELSE bv.c

\* is_orthogonal_basis(x, y, z): norm(cross(x, y) - z) < ORTH_EPSILON; on
\* integer components the difference is below the tolerance iff it is zero
is_orthogonal_basis(x, y, z) == cross(Std(x), Std(y)) = Std(z)

\* basis_matrix(basis): the 4x4 matrix, or the exception raised
basis_matrix(basis) ==
    IF is_orthogonal_basis(basis[1], basis[2], basis[3])
    THEN [err |-> "none",
          val |-> hstack(<<unit_vector_matrix(basis, 0), vector_w(<<0, 0, 0>>, 1)>>)]
    ELSE [err |-> "BasisError", val |-> None]

\* rotate_basis(basis_mat, direction, angle)
rotate_basis(basis_mat, direction, angle) ==
    matmul(rotation_matrix(<<0, 0, 0>>, direction, angle), basis_mat)

\* oriented_basis(yaw, pitch, roll): the three rotated basis vectors
oriented_basis_rotated(yaw, pitch, roll) ==
    LET b0 == unit_vector_matrix(<<Exact(XAXIS), Exact(YAXIS), Exact(ZAXIS)>>, 0)
        b1 == rotate_basis(b0, Col3(b0, 2), yaw)
        b2 == rotate_basis(b1, Col3(b1, 0), pitch)
        b3 == rotate_basis(b2, Col3(b2, 1), roll)
    IN  AsTuple([i \in 1..3 |-> Exact(Col3(b3, i - 1))])

\* the orientations (yaw, pitch, roll), in quarter turns, that motions hold
Orientations == {<<0, 0, 0>>, <<1, 0, 0>>}

\* oriented_basis_rotated evaluated once for each of these orientations
oriented_basis_table ==
    [o \in Orientations |-> oriented_basis_rotated(o[1], o[2], o[3])] @@ <<>>

\* oriented_basis as ModelManager.orient calls it
oriented_basis(yaw, pitch, roll) == oriented_basis_table[<<yaw, pitch, roll>>]

\* the matrix left of A after deleting row i and column j
Minor(A, i, j) ==
    AsTuple([r \in 1..(Len(A) - 1) |->
        AsTuple([c \in 1..(Len(A) - 1) |->
            A[IF r < i THEN r ELSE r + 1][IF c < j THEN c ELSE c + 1]])])

RECURSIVE Det(_)
Det(A) ==
    IF Len(A) = 1 THEN A[1][1]
    ELSE SumTo(AsTuple([j \in 1..Len(A) |->
                   (IF j % 2 = 1 THEN 1 ELSE 0 - 1) * A[1][j] * Det(Minor(A, 1, j))]),
               Len(A))

\* n / d where d divides n
ExactDiv(n, d) ==
    LET m == IF n < 0 THEN 0 - n ELSE n
    IN  CHOOSE q \in (0 - m)..m : q * d = n

\* the inverse as the adjugate over the determinant (exact on the integer
\* matrices that arise); a singular matrix raises LinAlgError
inv_adjugate(A) ==
    LET d == Det(A)
    IN  IF d = 0
        THEN [err |-> "LinAlgError", val |-> None]
        ELSE [err |-> "none",
              val |-> AsTuple([i \in 1..Len(A) |->
                          AsTuple([j \in 1..Len(A) |->
                              ExactDiv((IF (i + j) % 2 = 0 THEN 1 ELSE 0 - 1)
                                           * Det(Minor(A, j, i)), d)])])]

SignedAxes ==
    {XAXIS, YAXIS, ZAXIS, <<0 - 1, 0, 0>>, <<0, 0 - 1, 0>>, <<0, 0, 0 - 1>>}

\* every matrix basis_matrix can return: its columns are normalized axis
\* vectors
BasisMatrices ==
    {hstack(<<vstack(hstack(<<vector(x), vector(y), vector(z)>>), <<<<0, 0, 0>>>>),
              vector_w(<<0, 0, 0>>, 1)>>) : x \in SignedAxes, y \in SignedAxes, z \in SignedAxes}

\* inv_adjugate evaluated once for each of these matrices
inv_table == [A \in BasisMatrices |-> inv_adjugate(A)] @@ <<>>

\* np.linalg.inv, which Space._update_inverse applies to a basis matrix
inv(A) == inv_table[A]

-----------------------------------------------------------------------------
(* MotionMap._piecewise and its closure v *)

\* Python's s[:n]
Take(s, n) == SubSeq(s, 1, IF n < Len(s) THEN n ELSE Len(s))

\* np.where(times[last_idx:] > t)[0], as 0-based offsets from last_idx
where_gt(times, last_idx, t) ==
    {k \in 0..(Len(times) - last_idx - 1) : times[last_idx + k + 1] > t}

SetMin(S) == CHOOSE m \in S : \A o \in S : m <= o

\* _piecewise(times, vals): the state the closure captures
_piecewise(times, vals) ==
    [times |-> Take(times, Len(vals)), vals |-> vals, last_idx |-> 0]

\* v without the step back to the sample before the first later time
v_NoStepBack(f, t) ==
    LET indices == where_gt(f.times, f.last_idx, t)
    IN  IF indices # {}
        THEN LET idx == SetMin(indices) + f.last_idx
             IN  IF idx # 0
                 THEN [out |-> f.vals[idx + 1],
                       f   |-> [f EXCEPT !.last_idx = idx]]
                 ELSE [out |-> None, f |-> f]
        ELSE [out |-> None, f |-> f]

\* one call v(t) on closure f: the value returned and the closure afterwards
v(f, t) ==
    LET indices == where_gt(f.times, f.last_idx, t)
    IN  IF indices # {}
        THEN LET idx == SetMin(indices) + f.last_idx
             IN  IF idx # 0
                 THEN [out |-> f.vals[(idx - 1) + 1],
                       f   |-> [f EXCEPT !.last_idx = idx - 1]]
                 ELSE [out |-> None, f |-> f]
        ELSE [out |-> None, f |-> f]

\* a piecewise function nothing is asked of
IdlePiecewise ==
    /\ times_in = <<>>
    /\ vals_in = <<>>
    /\ pw = _piecewise(<<>>, <<>>)
    /\ pw_t = 0
    /\ pw_out = None
    /\ pw_asked = FALSE
    /\ pw_mono = TRUE

-----------------------------------------------------------------------------
(* models.py: Space *)

\* the origins a Space is given
Origins == {<<0, 0, 0>>, <<1, 2, 3>>}

AxisDirs == {XAXIS, YAXIS, ZAXIS, <<0 - 1, 0, 0>>}

\* the vectors a basis is assembled from: four unit axis directions, two
\* axis vectors of length 2, and one axis vector scaled below ORTH_EPSILON.
\* (Vectors off the axes normalize to irrational components and the zero
\* vector normalizes to NaN; neither is enumerated.)
BasisVectors ==
    {Exact(d) : d \in AxisDirs}
        \cup {Exact(<<2, 0, 0>>), Exact(<<0, 0, 2>>)}
        \cup {[c |-> XAXIS, sub |-> TRUE]}

BasisArgs == [1..3 -> BasisVectors]

\* Space._update_inverse
_update_inverse(s) ==
    IF s._basis # None /\ s._translation # None
    THEN LET r == inv(s._basis)
         IN  IF r.err # "none"
             THEN [err |-> r.err, space |-> s]
             ELSE [err |-> "none",
                   space |-> [s EXCEPT !._inverse = matmul(s._translation, r.val)]]
    ELSE [err |-> "none", space |-> s]

\* the basis setter of Space
Space_set_basis(s, basis) ==
    LET bm == basis_matrix(basis)
    IN  IF bm.err # "none"
        THEN [err |-> bm.err, space |-> s]
        ELSE _update_inverse([s EXCEPT !._basis = bm.val])

\* the origin setter of Space
Space_set_origin(s, origin) ==
    _update_inverse(
        [s EXCEPT !._translation = translation_matrix(origin[1], origin[2], origin[3])])

\* Space.__init__(basis, origin); either argument may be None
Space_init(basis, origin) ==
    LET s0 == [_basis |-> None, _translation |-> None, _inverse |-> None]
        r1 == IF basis # None THEN Space_set_basis(s0, basis)
              ELSE [err |-> "none", space |-> s0]
    IN  IF r1.err # "none" THEN r1
        ELSE IF origin # None THEN Space_set_origin(r1.space, origin)
        ELSE r1

\* the origin getter: _translation[:3, 3]
Space_origin(s) == Col3(s._translation, 3)

\* the basis getter: _basis[:3, :3]
Space_basis(s) == AsTuple([i \in 1..3 |-> SubSeq(s._basis[i], 1, 3)])

\* Space.invert(points)
Space_invert(s, points) == matmul(s._inverse, points)

\* Space(): the world frame
DefaultSpace == Space_init(<<Exact(XAXIS), Exact(YAXIS), Exact(ZAXIS)>>, <<0, 0, 0>>).space

IdleSpace ==
    /\ space = DefaultSpace
    /\ space_op = "init"
    /\ space_err = "none"

-----------------------------------------------------------------------------
(* A Python dict: the sequence of its [key, val] entries in insertion order *)

D_Keys(d) == {d[i].key : i \in 1..Len(d)}

D_Has(d, k) == k \in D_Keys(d)

\* d[k]
D_Get(d, k) == d[CHOOSE i \in 1..Len(d) : d[i].key = k].val

\* d[k] = val: an existing key keeps its place, a new key goes last
D_Set(d, k, val) ==
    IF D_Has(d, k)
    THEN AsTuple([i \in 1..Len(d) |->
                     IF d[i].key = k THEN [key |-> k, val |-> val] ELSE d[i]])
    ELSE Append(d, [key |-> k, val |-> val])

IsNotKey(e, k) == e.key # k

\* del d[k]
D_Del(d, k) == SelectSeq(d, LAMBDA e : IsNotKey(e, k))

\* The dict _models is a function on the keys present: its iteration order
\* is read by the `models` property alone.
M_Has(m, k) == k \in DOMAIN m

\* m[k] = val
M_Set(m, k, val) == [j \in (DOMAIN m) \cup {k} |-> IF j = k THEN val ELSE m[j]]

\* del m[k]
M_Del(m, k) == [j \in (DOMAIN m) \ {k} |-> m[j]]

M_Empty == [j \in {} |-> 0]

-----------------------------------------------------------------------------
(* models.py: MotionMap.  A positions or orientations argument is          *)
(* [kind |-> "list", vals |-> a sequence] or [kind |-> "callable", fn].    *)

List(vals) == [kind |-> "list", vals |-> vals, fn |-> "none"]
Callable(fn) == [kind |-> "callable", vals |-> <<>>, fn |-> fn]

\* the callables handed in: lambda t: (5, 5, 0)
CallFn(fn, t) == <<5, 5, 0>>

\* MotionMap.__init__(positions, orientations, times)
MotionMap(positions, orientations, times) ==
    [_position |->
        IF positions.kind = "callable" THEN positions
        ELSE [kind |-> "piecewise", f |-> _piecewise(times, positions.vals)],
     _orientation |->
        IF orientations.kind = "callable" THEN orientations
        ELSE [kind |-> "piecewise", f |-> _piecewise(times, orientations.vals)]]

\* one call of a MotionMap's _position or _orientation
CallTrack(track, t) ==
    IF track.kind = "callable"
    THEN [out |-> CallFn(track.fn, t), track |-> track]
    ELSE LET r == v(track.f, t)
         IN  [out |-> r.out, track |-> [track EXCEPT !.f = r.f]]

\* MotionMap.get_state(time): the pair returned and the MotionMap afterwards
get_state(mm, time) ==
    LET p == CallTrack(mm._position, time)
        o == CallTrack(mm._orientation, time)
    IN  [state |-> <<p.out, o.out>>,
         mm |-> [_position |-> p.track, _orientation |-> o.track]]

-----------------------------------------------------------------------------
(* models.py: Model, as far as ModelManager reads and writes it here: what *)
(* it was built from and its Space                                         *)

\* Model.__init__: the Space is the world frame
Model_init(src) == [src |-> src, _space |-> DefaultSpace]

\* Model.origin (getter)
Model_origin(m) == Space_origin(m._space)

\* Model.basis (getter): the columns of the Space's basis
Model_basis(m) == AsTuple([i \in 1..3 |-> Col3(m._space._basis, i - 1)])

-----------------------------------------------------------------------------
(* models.py: Model with its vertices and faces.  _vertices is the 4xn     *)
(* matrix of homogeneous columns; a face is a tuple of 0-based indices.    *)

\* most faces a Model is given in all
MaxFaces == 2
\* largest magnitude of a vertex coordinate followed
MaxCoord == 4

\* np.zeros((4, 0))
EmptyVertices == <<<<>>, <<>>, <<>>, <<>>>>

\* _vertices.shape[1]
NumVertices(m) == Len(m._vertices[1])

\* the vertices setter: vector_matrix(vertices, w=1)
Model_set_vertices(m, vertices) ==
    [m EXCEPT !._vertices = vector_matrix(vertices, 1)]

\* Model._add_face(face)
_add_face(m, face) ==
    IF \E i \in 1..Len(face) : face[i] < 0 \/ face[i] >= NumVertices(m)
    THEN [err |-> "IndexError", m |-> m]
    ELSE [err |-> "none", m |-> [m EXCEPT !._faces = Append(m._faces, face)]]

\* Model.add_faces(faces): the loop from face i on; an exception ends it
RECURSIVE add_faces_from(_, _, _)
add_faces_from(m, faces, i) ==
    IF i > Len(faces) THEN [err |-> "none", m |-> m]
    ELSE LET r == _add_face(m, faces[i])
         IN  IF r.err # "none" THEN r ELSE add_faces_from(r.m, faces, i + 1)

\* Model.add_faces(faces)
add_faces(m, faces) == add_faces_from(m, faces, 1)

\* the faces setter: erase, then add_faces
Model_set_faces(m, faces) == add_faces([m EXCEPT !._faces = <<>>], faces)

\* Model.centroid: np.sum(_vertices[:3], axis=1) / _vertices.shape[1]; with
\* no vertex every component is 0/0, written None
centroid(m) ==
    LET n == NumVertices(m)
    IN  IF n = 0 THEN None
        ELSE AsTuple([r \in 1..3 |-> ExactDiv(SumTo(m._vertices[r], n), n)])

\* Model.set_local_center(center); a translation by 0/0 of no vertex leaves
\* the 4x0 matrix
set_local_center(m, center) ==
    IF center = None THEN m
    ELSE [m EXCEPT !._vertices =
             matmul(translation_matrix(0 - center[1], 0 - center[2], 0 - center[3]),
                    m._vertices)]

\* Model.__init__(vertices, faces); either argument may be None
Model_new(vertices, faces) ==
    LET m0 == [_vertices |-> EmptyVertices, _faces |-> <<>>, _space |-> DefaultSpace]
        m1 == IF vertices # None THEN Model_set_vertices(m0, vertices) ELSE m0
        r2 == IF vertices # None /\ faces # None THEN Model_set_faces(m1, faces)
              ELSE [err |-> "none", m |-> m1]
    IN  IF r2.err # "none" THEN r2
        ELSE [err |-> "none", m |-> set_local_center(r2.m, centroid(r2.m))]

\* the origin setter of Model
Model_set_origin(m, origin) ==
    LET r == Space_set_origin(m._space, origin)
    IN  [err |-> r.err, m |-> [m EXCEPT !._space = r.space]]

\* the basis setter of Model
Model_set_basis(m, basis) ==
    LET r == Space_set_basis(m._space, basis)
    IN  [err |-> r.err, m |-> [m EXCEPT !._space = r.space]]

\* Model.change_local_basis(basis)
change_local_basis(m, basis) ==
    LET current_basis == AsTuple([i \in 1..3 |-> Exact(Col3(Space_basis(m._space), i - 1))])
        r1 == Space_set_basis(m._space, basis)
    IN  IF r1.err # "none"
        THEN [err |-> r1.err, m |-> [m EXCEPT !._space = r1.space]]
        ELSE LET verts == Space_invert(r1.space, m._vertices)
                 r2 == Space_set_basis(r1.space, current_basis)
             IN  [err |-> r2.err,
                  m |-> [m EXCEPT !._vertices = verts, !._space = r2.space]]

\* Model.vertices (getter)
Model_vertices(m) == AsTuple([i \in 1..NumVertices(m) |-> Col3(m._vertices, i - 1)])

\* Model.world_vertices
world_vertices(m) ==
    LET w == Space_invert(m._space, m._vertices)
    IN  AsTuple([i \in 1..NumVertices(m) |-> Col3(w, i - 1)])

IdleModel ==
    /\ model = Model_new(None, None).m
    /\ model_in = None
    /\ model_op = "init"
    /\ model_err = "none"

-----------------------------------------------------------------------------
(* scene.py: Scene *)

\* _get_z that returns the end of the segment in front of the plane
_get_z_FarEnd(v1, v2, min_z) ==
    IF v2[3] = v1[3] \/ min_z < v1[3] \/ min_z > v2[3] THEN None ELSE v2

\* Scene._get_z(v1, v2, min_z): the point of the segment v1-v2 at z = min_z,
\* or None.  (min_z - v1[2])/dz times dx is taken exactly; the points that
\* are clipped are chosen so that it is a whole number.
_get_z(v1, v2, min_z) ==
    IF v2[3] = v1[3] \/ min_z < v1[3] \/ min_z > v2[3]
    THEN None
    ELSE LET dx == v2[1] - v1[1]
             dy == v2[2] - v1[2]
             dz == v2[3] - v1[3]
         IN  <<v1[1] + ExactDiv(dx * (min_z - v1[3]), dz),
               v1[2] + ExactDiv(dy * (min_z - v1[3]), dz),
               min_z>>

\* the body of the loop, replacing a vertex behind the plane only where it
\* has a neighbour in front
clip_vertex_KeepIsolated(face_vertices, i, clip_dist) ==
    LET n == Len(face_vertices)
    IN  IF face_vertices[i + 1][3] < clip_dist
        THEN LET prev_vert == face_vertices[IF i = 0 THEN n ELSE i]
                 next_vert == face_vertices[((i + 1) % n) + 1]
                 s1 == IF prev_vert[3] >= clip_dist
                       THEN <<prev_vert>>
                       ELSE <<>>
                 sides == IF next_vert[3] >= clip_dist
                          THEN Append(s1, next_vert)
                          ELSE s1
             IN  IF sides = <<>>
                 THEN [face_vertices |-> face_vertices, i |-> i + 1]
                 ELSE [face_vertices |-> SubSeq(face_vertices, 1, i) \o sides
                                            \o SubSeq(face_vertices, i + 2, n),
                       i |-> (i + Len(sides) - 1) + 1]
        ELSE [face_vertices |-> face_vertices, i |-> i + 1]

\* the body of the while loop of Scene._clip at index i (0-based): the list
\* and the index afterwards
clip_vertex(face_vertices, i, clip_dist) ==
    LET n == Len(face_vertices)
    IN  IF face_vertices[i + 1][3] < clip_dist
        THEN LET prev_vert == face_vertices[IF i = 0 THEN n ELSE i]
                 next_vert == face_vertices[((i + 1) % n) + 1]
                 s1 == IF prev_vert[3] >= clip_dist
                       THEN <<_get_z(face_vertices[i + 1], prev_vert, clip_dist)>>
                       ELSE <<>>
                 sides == IF next_vert[3] >= clip_dist
                          THEN Append(s1, _get_z(face_vertices[i + 1], next_vert, clip_dist))
                          ELSE s1
             IN  [face_vertices |-> SubSeq(face_vertices, 1, i) \o sides
                                        \o SubSeq(face_vertices, i + 2, n),
                  i |-> (i + Len(sides) - 1) + 1]
        ELSE [face_vertices |-> face_vertices, i |-> i + 1]

\* the while loop of Scene._clip from index i on
RECURSIVE clip_from(_, _, _)
clip_from(face_vertices, i, clip_dist) ==
    IF i < Len(face_vertices)
    THEN LET r == clip_vertex(face_vertices, i, clip_dist)
         IN  clip_from(r.face_vertices, r.i, clip_dist)
    ELSE face_vertices

\* Scene._clip(face_vertices, clip_dist)
_clip(face_vertices, clip_dist) == clip_from(face_vertices, 0, clip_dist)

\* rotate2d(point, angle), the angle in quarter turns
rotate2d(point, angle) ==
    <<point[1] * Cos(angle) - point[2] * Sin(angle),
      point[2] * Cos(angle) + point[1] * Sin(angle)>>

\* Scene._convert_coords(vertex) for camera cam
_convert_coords(cam, vertex) ==
    LET x0 == vertex[1] - cam.viewpoint[1]
        y0 == vertex[2] - cam.viewpoint[2]
        z0 == vertex[3] - cam.viewpoint[3]
        xz == rotate2d(<<x0, z0>>, cam.rotation[2])
        yz == rotate2d(<<y0, xz[2]>>, cam.rotation[1])
    IN  <<xz[1], yz[1], yz[2]>>

\* int(a / b): the quotient cut towards zero
TruncDiv(a, b) ==
    LET q == (IF a < 0 THEN 0 - a ELSE a) \div (IF b < 0 THEN 0 - b ELSE b)
    IN  IF (a < 0) = (b < 0) THEN q ELSE 0 - q

\* project2d(point, center, projection)
project2d(point, center, projection) ==
    <<center[1] + TruncDiv(point[1] * projection[1], point[3]),
      center[2] + TruncDiv(point[2] * projection[2], point[3])>>

\* the depth key of a clipped face: the sum over the three axes of the
\* squared mean coordinate, in units of 1/3600 (a face has 3 to 6 vertices)
depth(face_verts) ==
    LET n == Len(face_verts)
        sq(c) == LET t == SumTo(AsTuple([k \in 1..n |-> face_verts[k][c]]), n)
                 IN  t * t
    IN  (sq(1) + sq(2) + sq(3)) * ((60 * 60) \div (n * n))

\* Python's list[::-1]
Reversed(s) == AsTuple([i \in 1..Len(s) |-> s[Len(s) + 1 - i]])

\* the place of index x in a list of indices sorted by key: behind every
\* element whose key is not greater
RECURSIVE insert_sorted(_, _, _)
insert_sorted(sorted_list, x, key) ==
    IF sorted_list = <<>> THEN <<x>>
    ELSE IF key[x] < key[Head(sorted_list)]
         THEN <<x>> \o sorted_list
         ELSE <<Head(sorted_list)>> \o insert_sorted(Tail(sorted_list), x, key)

\* a stable ascending sort of a list of indices by key
RECURSIVE sort_stable(_, _)
sort_stable(items, key) ==
    IF items = <<>> THEN <<>>
    ELSE insert_sorted(sort_stable(SubSeq(items, 1, Len(items) - 1), key),
                       items[Len(items)], key)

\* a descending sort that turns the list round after sorting it
sorted_reverse_TiesTurned(items, key) == Reversed(sort_stable(items, key))

\* sorted(items, key=..., reverse=True): the list turned round, sorted stably
\* and turned round again
sorted_reverse(items, key) == Reversed(sort_stable(Reversed(items), key))

\* the faces one model adds to faces_to_render, colours and depths: the
\* inner loop of Scene._draw_models from face f on
RECURSIVE collect_faces(_, _, _, _, _)
collect_faces(cam, vertices, sm, f, acc) ==
    IF f > Len(sm.m._faces) THEN acc
    ELSE LET face == sm.m._faces[f]
             face_verts == _clip(AsTuple([k \in 1..Len(face) |-> vertices[face[k] + 1]]),
                                 cam.clip_plane)
         IN  collect_faces(cam, vertices, sm, f + 1,
                 IF Len(face_verts) > 2
                 THEN Append(acc,
                          [points |-> AsTuple([k \in 1..Len(face_verts) |->
                               project2d(face_verts[k], cam.center, cam.proj)]),
                           verts |-> face_verts,
                           colour |-> sm.colour,
                           depth |-> depth(face_verts),
                           idx |-> Len(acc)])
                 ELSE acc)

\* the outer loop of Scene._draw_models from model k on
RECURSIVE collect_models(_, _, _, _)
collect_models(cam, models, k, acc) ==
    IF k > Len(models) THEN acc
    ELSE LET wv == world_vertices(models[k].m)
             vertices == AsTuple([j \in 1..Len(wv) |-> _convert_coords(cam, wv[j])])
         IN  collect_models(cam, models, k + 1,
                            collect_faces(cam, vertices, models[k], 1, acc))

\* Scene._draw_models: the faces in the order they are drawn
_draw_models(cam, models) ==
    LET collected == collect_models(cam, models, 1, <<>>)
        depths == AsTuple([i \in 1..Len(collected) |-> collected[i].depth])
        order == sorted_reverse(AsTuple([i \in 1..Len(collected) |-> i]), depths)
    IN  AsTuple([i \in 1..Len(order) |-> collected[order[i]]])

\* a call is "idle" (none), "called" (arguments bound) or "returned"
NoClipCall == [pc |-> "idle", face_vertices |-> <<>>, clip_dist |-> 0, out |-> <<>>]
NoDrawCall == [pc |-> "idle", cam |-> None, models |-> <<>>, out |-> <<>>]

IdleScene ==
    /\ clip_call = NoClipCall
    /\ draw_call = NoDrawCall

-----------------------------------------------------------------------------
(* manager.py: ModelManager *)

Keys == {"a", "b"}

\* keyword arguments of add_model; the string "None" is an argument not given
KwArgs ==
    [model : {"None", "Model", "NotAModel"},
     stl_file : {"None", "file"},
     vertices : {"None", "vertices"}]

\* the arguments add_motion is called with
MotionArgs ==
    { [positions |-> List(<<<<5, 0, 0>>, <<5, 5, 0>>, <<5, 0, 0>>>>),
       orientations |-> List(<<>>),
       times |-> <<0, 1, 2>>],
      [positions |-> Callable("const"),
       orientations |-> List(<<<<1, 0, 0>>, <<0, 0, 0>>>>),
       times |-> <<1, 3>>] }

\* the times update_models is called with
UpdateTimes == 0..MaxTime

\* ModelManager.set_position(key, position) on the dict of models
set_position(models, key, position) ==
    IF ~M_Has(models, key) THEN [err |-> "KeyError", models |-> models]
    ELSE LET r == Space_set_origin(models[key]._space, position)
         IN  [err |-> r.err,
              models |-> [models EXCEPT ![key]._space = r.space]]

\* ModelManager.orient(key, yaw, pitch, roll) on the dict of models
orient(models, key, yaw, pitch, roll) ==
    LET basis == oriented_basis(yaw, pitch, roll)
    IN  IF ~M_Has(models, key) THEN [err |-> "KeyError", models |-> models]
        ELSE LET r == Space_set_basis(models[key]._space, basis)
             IN  [err |-> r.err,
                  models |-> [models EXCEPT ![key]._space = r.space]]

\* ModelManager._get_states(time): the states, in the order of _motions, and
\* the dict of motions with every cursor moved
_get_states(motions, time) ==
    [states |-> [i \in 1..Len(motions) |->
                    [key |-> motions[i].key,
                     val |-> get_state(motions[i].val, time).state]],
     motions |-> [i \in 1..Len(motions) |->
                    [key |-> motions[i].key,
                     val |-> get_state(motions[i].val, time).mm]]]

\* the body of the loop of update_models for the entry of one key
UpdateOne(models, key, state) ==
    LET r1 == IF state[1] # None THEN set_position(models, key, state[1])
              ELSE [err |-> "none", models |-> models]
    IN  IF r1.err # "none" THEN r1
        ELSE IF state[2] # None
             THEN orient(r1.models, key, state[2][1], state[2][2], state[2][3])
             ELSE r1

\* the loop of update_models from entry i on; an exception ends it
RECURSIVE UpdateLoop(_, _, _)
UpdateLoop(models, states, i) ==
    IF i > Len(states) THEN [err |-> "none", models |-> models]
    ELSE LET r == UpdateOne(models, states[i].key, states[i].val)
         IN  IF r.err # "none" THEN r
             ELSE UpdateLoop(r.models, states, i + 1)

OpRecord(name, key, had_motion) ==
    [name |-> name, key |-> key, had_motion |-> had_motion]

\* add_model without the check that the key is free
add_model_NoKeyCheck(key, kwargs) ==
    /\ mgr_op' = OpRecord("add_model", key, FALSE)
    /\ UNCHANGED _motions
    /\ IF kwargs.model # "None"
       THEN IF kwargs.model # "Model"
            THEN mgr_err' = "TypeError" /\ UNCHANGED _models
            ELSE /\ mgr_err' = "none"
                 /\ _models' = M_Set(_models, key, Model_init("model"))
       ELSE IF kwargs.stl_file # "None"
       THEN /\ mgr_err' = "none"
            /\ _models' = M_Set(_models, key, Model_init("stl_file"))
       ELSE IF kwargs.vertices # "None"
       THEN /\ mgr_err' = "none"
            /\ _models' = M_Set(_models, key, Model_init("vertices"))
       ELSE mgr_err' = "ValueError" /\ UNCHANGED _models

\* ModelManager.add_model(key, **kwargs)
add_model(key, kwargs) ==
    /\ mgr_op' = OpRecord("add_model", key, FALSE)
    /\ UNCHANGED _motions
    /\ IF M_Has(_models, key)
       THEN mgr_err' = "KeyError" /\ UNCHANGED _models
       ELSE IF kwargs.model # "None"
       THEN IF kwargs.model # "Model"
            THEN mgr_err' = "TypeError" /\ UNCHANGED _models
            ELSE /\ mgr_err' = "none"
                 /\ _models' = M_Set(_models, key, Model_init("model"))
       ELSE IF kwargs.stl_file # "None"
       THEN /\ mgr_err' = "none"
            /\ _models' = M_Set(_models, key, Model_init("stl_file"))
       ELSE IF kwargs.vertices # "None"
       THEN /\ mgr_err' = "none"
            /\ _models' = M_Set(_models, key, Model_init("vertices"))
       ELSE mgr_err' = "ValueError" /\ UNCHANGED _models

\* remove_model that leaves the key's motion in place
remove_model_KeepMotion(key) ==
    /\ mgr_op' = OpRecord("remove_model", key, D_Has(_motions, key))
    /\ IF ~M_Has(_models, key)
       THEN mgr_err' = "KeyError" /\ UNCHANGED <<_models, _motions>>
       ELSE /\ mgr_err' = "none"
            /\ _models' = M_Del(_models, key)
            /\ UNCHANGED _motions

\* ModelManager.remove_model(key)
remove_model(key) ==
    /\ mgr_op' = OpRecord("remove_model", key, D_Has(_motions, key))
    /\ IF ~M_Has(_models, key)
       THEN mgr_err' = "KeyError" /\ UNCHANGED <<_models, _motions>>
       ELSE /\ mgr_err' = "none"
            /\ _models' = M_Del(_models, key)
            /\ _motions' = IF D_Has(_motions, key) THEN D_Del(_motions, key)
                           ELSE _motions

\* add_motion that leaves a motion the key already has in place
add_motion_KeepExisting(key, args) ==
    /\ mgr_op' = OpRecord("add_motion", key, D_Has(_motions, key))
    /\ mgr_err' = "none"
    /\ _motions' = IF D_Has(_motions, key) THEN _motions
                   ELSE D_Set(_motions, key,
                              MotionMap(args.positions, args.orientations, args.times))
    /\ UNCHANGED _models

\* ModelManager.add_motion(key, positions, orientations, times)
add_motion(key, args) ==
    /\ mgr_op' = OpRecord("add_motion", key, D_Has(_motions, key))
    /\ mgr_err' = "none"
    /\ _motions' = D_Set(_motions, key,
                         MotionMap(args.positions, args.orientations, args.times))
    /\ UNCHANGED _models

\* ModelManager.remove_motion(key)
remove_motion(key) ==
    /\ mgr_op' = OpRecord("remove_motion", key, FALSE)
    /\ UNCHANGED _models
    /\ IF ~D_Has(_motions, key)
       THEN mgr_err' = "KeyError" /\ UNCHANGED _motions
       ELSE mgr_err' = "none" /\ _motions' = D_Del(_motions, key)

\* ModelManager.update_models(time)
update_models(time) ==
    LET g == _get_states(_motions, time)
        r == UpdateLoop(_models, g.states, 1)
    IN  /\ mgr_op' = OpRecord("update_models", "none", FALSE)
        /\ _motions' = g.motions
        /\ _models' = r.models
        /\ mgr_err' = r.err

\* ModelManager.__init__
InitManagerState ==
    /\ _models = M_Empty
    /\ _motions = <<>>
    /\ mgr_op = OpRecord("init", "none", FALSE)
    /\ mgr_err = "none"

IdleManager == InitManagerState

-----------------------------------------------------------------------------
(* Specification of a ModelManager under any sequence of calls *)

InitManager ==
    /\ InitManagerState
    /\ IdlePiecewise
    /\ IdleSpace
    /\ IdleModel
    /\ IdleScene

NextManager ==
    \/ \E key \in Keys, kwargs \in KwArgs :
          add_model(key, kwargs) /\ UNCHANGED <<pwVars, spaceVars, modelVars, sceneVars>>
    \/ \E key \in Keys : remove_model(key) /\ UNCHANGED <<pwVars, spaceVars, modelVars, sceneVars>>
    \/ \E key \in Keys, args \in MotionArgs :
          add_motion(key, args) /\ UNCHANGED <<pwVars, spaceVars, modelVars, sceneVars>>
    \/ \E key \in Keys : remove_motion(key) /\ UNCHANGED <<pwVars, spaceVars, modelVars, sceneVars>>
    \/ \E time \in UpdateTimes :
          update_models(time) /\ UNCHANGED <<pwVars, spaceVars, modelVars, sceneVars>>

SpecManager == InitManager /\ [][NextManager]_vars

-----------------------------------------------------------------------------
(* Specification of one Space under any sequence of assignments *)

\* Space(basis, origin) with both arguments given, where __init__ returned
InitSpace ==
    /\ \E basis \in BasisArgs, origin \in Origins :
          LET r == Space_init(basis, origin)
          IN  /\ r.err = "none"
              /\ space = r.space
              /\ space_op = "init"
    /\ space_err = "none"
    /\ IdlePiecewise
    /\ IdleManager
    /\ IdleModel
    /\ IdleScene

SetBasis(basis) ==
    LET r == Space_set_basis(space, basis)
    IN  /\ space' = r.space
        /\ space_err' = r.err
        /\ space_op' = "set_basis"
        /\ UNCHANGED <<pwVars, mgrVars, modelVars, sceneVars>>

SetOrigin(origin) ==
    LET r == Space_set_origin(space, origin)
    IN  /\ space' = r.space
        /\ space_err' = r.err
        /\ space_op' = "set_origin"
        /\ UNCHANGED <<pwVars, mgrVars, modelVars, sceneVars>>

NextSpace ==
    \/ \E basis \in BasisArgs : SetBasis(basis)
    \/ \E origin \in Origins : SetOrigin(origin)

SpecSpace == InitSpace /\ [][NextSpace]_vars

-----------------------------------------------------------------------------
(* Specification of one piecewise function under any sequence of queries *)

InitPiecewise ==
    /\ times_in \in TimeLists
    /\ vals_in \in ValueLists
    /\ pw = _piecewise(times_in, vals_in)
    /\ pw_t = 0
    /\ pw_out = None
    /\ pw_asked = FALSE
    /\ pw_mono = TRUE
    /\ IdleSpace
    /\ IdleManager
    /\ IdleModel
    /\ IdleScene

Query(t) ==
    LET r == v(pw, t)
    IN  /\ pw' = r.f
        /\ pw_out' = r.out
        /\ pw_t' = t
        /\ pw_asked' = TRUE
        /\ pw_mono' = (pw_mono /\ (pw_asked => pw_t <= t))
        /\ UNCHANGED <<times_in, vals_in>>
        /\ UNCHANGED <<spaceVars, mgrVars, modelVars, sceneVars>>

NextPiecewise == \E t \in QueryTimes : Query(t)

SpecPiecewise == InitPiecewise /\ [][NextPiecewise]_vars

-----------------------------------------------------------------------------
(* Specification of one Model under any sequence of operations *)

\* the vertex lists a Model is given; each has a centroid of whole numbers
VertexLists ==
    { <<<<2, 0, 0>>, <<4, 0, 0>>>>,
      <<<<0, 0, 0>>, <<2, 0, 0>>, <<1, 3, 0>>>> }

\* the face lists a Model is given
FaceLists ==
    { << <<0, 1, 2>> >>, << <<0, 1>>, <<0 - 1, 0>> >> }

\* the world positions a Model is moved to
ModelOrigins == {<<0, 0, 0>>, <<3, 0, 0>>}

\* the bases handed to a Model: the world basis, a half turn about z, a
\* left-handed triple, and a triple is_orthogonal_basis lets through
\* although its matrix is singular
LocalBases ==
    { <<Exact(XAXIS), Exact(YAXIS), Exact(ZAXIS)>>,
      <<Exact(<<0 - 1, 0, 0>>), Exact(<<0, 0 - 1, 0>>), Exact(ZAXIS)>>,
      <<Exact(YAXIS), Exact(XAXIS), Exact(ZAXIS)>>,
      <<Exact(XAXIS), Exact(XAXIS), [c |-> XAXIS, sub |-> TRUE]>> }

\* Model(vertices, faces) where __init__ returned
InitModel ==
    /\ \E vertices \in VertexLists \cup {None}, faces \in FaceLists \cup {None} :
          LET r == Model_new(vertices, faces)
          IN  /\ r.err = "none"
              /\ model = r.m
              /\ model_in = vertices
    /\ model_op = "init"
    /\ model_err = "none"
    /\ IdlePiecewise
    /\ IdleSpace
    /\ IdleManager
    /\ IdleScene

ModelStep(name, r) ==
    /\ model' = r.m
    /\ model_err' = r.err
    /\ model_op' = name
    /\ UNCHANGED model_in
    /\ UNCHANGED <<pwVars, spaceVars, mgrVars, sceneVars>>

AssignVertices(vertices) ==
    ModelStep("vertices", [err |-> "none", m |-> Model_set_vertices(model, vertices)])

AssignFaces(faces) == ModelStep("faces", Model_set_faces(model, faces))

AddFaces(faces) ==
    /\ Len(model._faces) + Len(faces) <= MaxFaces
    /\ ModelStep("add_faces", add_faces(model, faces))

AssignOrigin(origin) == ModelStep("origin", Model_set_origin(model, origin))

AssignBasis(basis) == ModelStep("basis", Model_set_basis(model, basis))

InBox(M) ==
    \A r \in 1..3 : \A j \in 1..Len(M[r]) : M[r][j] <= MaxCoord /\ M[r][j] >= 0 - MaxCoord

ChangeLocalBasis(basis) ==
    LET r == change_local_basis(model, basis)
    IN  /\ InBox(r.m._vertices)
        /\ ModelStep("change_local_basis", r)

NextModel ==
    \/ \E vertices \in VertexLists : AssignVertices(vertices)
    \/ \E faces \in FaceLists : AssignFaces(faces)
    \/ \E faces \in FaceLists : AddFaces(faces)
    \/ \E origin \in ModelOrigins : AssignOrigin(origin)
    \/ \E basis \in LocalBases : AssignBasis(basis)
    \/ \E basis \in LocalBases : ChangeLocalBasis(basis)

SpecModel == InitModel /\ [][NextModel]_vars

-----------------------------------------------------------------------------
(* Specification of a Scene: calls of _clip and of _draw_models *)

\* most vertices of a polygon handed to _clip
MaxPoly == 4

\* camera-space points handed to _clip
ClipPoints == {<<x, 12 - x, z>> : x \in {0, 12}, z \in {0 - 1, 1, 3, 5}}

\* the clip distances
ClipDists == {1, 3}

Polygons == SeqsUpTo(ClipPoints, MaxPoly)

\* a Model at world position origin, with its colour
SceneModel(colour, vertices, faces, origin) ==
    [colour |-> colour,
     m |-> Model_set_origin(Model_new(vertices, faces).m, origin).m]

\* the models a manager holds when the Scene draws: two with the same
\* geometry, one of them with a face that straddles the clip planes and two
\* faces of equal depth, and one farther away
SceneModels ==
    { SceneModel("red",
                 <<<<0, 12, 0 - 1>>, <<12, 0, 3>>, <<0, 12, 5>>, <<12, 0, 5>>>>,
                 << <<1, 2, 3>>, <<0, 1, 2>>, <<3, 2, 1>> >>, <<6, 6, 3>>),
      SceneModel("blue",
                 <<<<0, 12, 0 - 1>>, <<12, 0, 3>>, <<0, 12, 5>>, <<12, 0, 5>>>>,
                 << <<1, 2, 3>> >>, <<6, 6, 3>>),
      SceneModel("green",
                 <<<<0, 12, 7>>, <<12, 0, 7>>, <<0, 12, 9>>, <<12, 0, 9>>>>,
                 << <<0, 1, 2>>, <<0, 1>> >>, <<6, 6, 8>>) }

\* the lists of models, in the order the manager lists them
Scenes == SeqsUpTo(SceneModels, 2)

\* the cameras: clip plane, viewpoint, rotation in quarter turns, and the
\* centre and projection that _initialize sets for the 400x400 screen
Cameras ==
    [clip_plane : ClipDists,
     viewpoint : {<<0, 0, 0>>, <<0, 0, 2>>},
     rotation : {<<0, 0>>},
     center : {<<200, 200>>},
     proj : {<<200, 200>>}]

\* one call of _clip or of _draw_models has its arguments bound
InitScene ==
    /\ \/ /\ \E face_vertices \in Polygons, clip_dist \in ClipDists :
                clip_call = [pc |-> "called", face_vertices |-> face_vertices,
                             clip_dist |-> clip_dist, out |-> <<>>]
          /\ draw_call = NoDrawCall
       \/ /\ \E cam \in Cameras, models \in Scenes :
                draw_call = [pc |-> "called", cam |-> cam, models |-> models,
                             out |-> <<>>]
          /\ clip_call = NoClipCall
    /\ IdlePiecewise
    /\ IdleSpace
    /\ IdleManager
    /\ IdleModel

Clip ==
    /\ clip_call.pc = "called"
    /\ clip_call' = [clip_call EXCEPT
                        !.pc = "returned",
                        !.out = _clip(clip_call.face_vertices, clip_call.clip_dist)]
    /\ UNCHANGED draw_call
    /\ UNCHANGED <<pwVars, spaceVars, mgrVars, modelVars>>

DrawModels ==
    /\ draw_call.pc = "called"
    /\ draw_call' = [draw_call EXCEPT
                        !.pc = "returned",
                        !.out = _draw_models(draw_call.cam, draw_call.models)]
    /\ UNCHANGED clip_call
    /\ UNCHANGED <<pwVars, spaceVars, mgrVars, modelVars>>

NextScene == Clip \/ DrawModels

SpecScene == InitScene /\ [][NextScene]_vars

-----------------------------------------------------------------------------
(* Claims about the piecewise motion function *)

\* C1: queried from creation with non-decreasing t, the step function
\* returns None whenever t is before its first time and vals[i] whenever
\* times[i] <= t < times[i+1] (times as the function holds them, 0-based i).
C1_StepValue ==
    (pw_asked /\ pw_mono) =>
        /\ (Len(pw.times) >= 1 /\ pw_t < pw.times[1]) => pw_out = None
        /\ \A i \in 1..(Len(pw.times) - 1) :
               (pw.times[i] <= pw_t /\ pw_t < pw.times[i + 1])
                   => pw_out = pw.vals[i]

\* C1 witness: after non-decreasing queries the cursor has moved and the
\* query falls in the interval of the second sample, whose value differs
\* from the first.
C1_Witness ==
    /\ pw_asked /\ pw_mono
    /\ Len(pw.times) >= 3
    /\ pw.last_idx = 1
    /\ pw.times[2] <= pw_t /\ pw_t < pw.times[3]
    /\ pw.vals[1] # pw.vals[2]
    /\ pw_out = pw.vals[2]

\* C2: with at least one sample, every query at or after the last time
\* returns the last value.
C2_LastValueHeld ==
    (/\ pw_asked
     /\ Len(pw.times) >= 1
     /\ Len(pw.times) = Len(pw.vals)
     /\ pw_t >= pw.times[Len(pw.times)])
        => pw_out = pw.vals[Len(pw.vals)]

\* C3: whatever the order of the queries, each result equals what a freshly
\* built function returns for that t.
C3_OrderIndependent ==
    pw_asked => pw_out = v(_piecewise(times_in, vals_in), pw_t).out

-----------------------------------------------------------------------------
(* Claims about ModelManager *)

\* C4: every key that has a motion also has a model.
C4_MotionsSubsetOfModels == D_Keys(_motions) \subseteq DOMAIN _models

\* the position and basis a model has after update_models(t), given the state
\* its motion returns (a pair of None for a key without a motion)
WritesState(before, after, state) ==
    /\ Model_origin(after) =
          IF state[1] # None THEN state[1] ELSE Model_origin(before)
    /\ Model_basis(after) =
          IF state[2] # None
          THEN LET b == oriented_basis(state[2][1], state[2][2], state[2][3])
               IN  <<b[1].c, b[2].c, b[3].c>>
          ELSE Model_basis(before)

\* C5: update_models(t) gives every model with a motion the position and the
\* oriented basis that get_state(t) returns, leaves a component alone where
\* get_state returns None, and leaves a model without a motion as it was.
C5_UpdateWritesStates ==
    [][\A t \in UpdateTimes :
          update_models(t) =>
              \A k \in DOMAIN _models :
                  /\ k \in DOMAIN _models'
                  /\ WritesState(_models[k], _models'[k],
                                 IF D_Has(_motions, k)
                                 THEN get_state(D_Get(_motions, k), t).state
                                 ELSE <<None, None>>)]_vars

\* C6: remove_model(k) for an existing key removes the model and the motion
\* of k and leaves the model and the motion of every other key as they were.
C6_RemoveModelFrame ==
    [][\A k \in Keys :
          (remove_model(k) /\ M_Has(_models, k)) =>
              /\ ~M_Has(_models', k)
              /\ ~D_Has(_motions', k)
              /\ \A j \in Keys \ {k} :
                    /\ M_Has(_models', j) <=> M_Has(_models, j)
                    /\ M_Has(_models, j) => _models'[j] = _models[j]
                    /\ D_Has(_motions', j) <=> D_Has(_motions, j)
                    /\ D_Has(_motions, j) =>
                          D_Get(_motions', j) = D_Get(_motions, j)]_vars

\* C6 witness: remove_model("a") has removed a model that had a motion while
\* "b" keeps its model and its motion.
C6_Witness ==
    /\ mgr_op = OpRecord("remove_model", "a", TRUE)
    /\ mgr_err = "none"
    /\ ~M_Has(_models, "a") /\ ~D_Has(_motions, "a")
    /\ M_Has(_models, "b") /\ D_Has(_motions, "b")

\* C7: add_model with a key already registered raises KeyError and changes
\* neither the models nor the motions.
C7_DuplicateKeyRejected ==
    [][\A k \in Keys :
          (M_Has(_models, k) /\ \E kw \in KwArgs : add_model(k, kw)) =>
              /\ mgr_err' = "KeyError"
              /\ _models' = _models
              /\ _motions' = _motions]_vars

\* C7 witness: add_model has been refused for a key whose model, moved by
\* its motion, is still the one registered.
C7_Witness ==
    /\ mgr_op.name = "add_model"
    /\ mgr_err = "KeyError"
    /\ M_Has(_models, mgr_op.key)
    /\ D_Has(_motions, mgr_op.key)
    /\ Model_origin(_models[mgr_op.key]) # <<0, 0, 0>>

NumGiven(kw) ==
    Cardinality({f \in {"model", "stl_file", "vertices"} : kw[f] # "None"})

\* C8: add_model raises an error and registers nothing when none of model,
\* stl_file and vertices is given and when more than one of them is given.
C8_BadInputsRejected ==
    [][\A k \in Keys, kw \in KwArgs :
          (add_model(k, kw) /\ NumGiven(kw) # 1) =>
              /\ mgr_err' # "none"
              /\ _models' = _models]_vars

\* every order of the entries of a list
Orderings(seq) ==
    {AsTuple([i \in 1..Len(seq) |-> seq[p[i]]]) :
        p \in {q \in [1..Len(seq) -> 1..Len(seq)] :
                  \A i, j \in 1..Len(seq) : q[i] = q[j] => i = j}}

\* C15: the positions and bases update_models(t) leaves do not depend on
\* the order in which the keys with motions are visited.
C15_VisitOrderIrrelevant ==
    [][\A t \in UpdateTimes :
          update_models(t) =>
              \A states \in Orderings(_get_states(_motions, t).states) :
                  LET r == UpdateLoop(_models, states, 1).models
                  IN  \A k \in DOMAIN _models :
                          /\ Model_origin(r[k]) = Model_origin(_models'[k])
                          /\ Model_basis(r[k]) = Model_basis(_models'[k])]_vars

\* C17: add_motion(k, ...) leaves under k the MotionMap built from its
\* arguments, with a fresh cursor, whatever motion k had: for every t
\* get_state is that of the new MotionMap.
C17_AddMotionReplaces ==
    [][\A k \in Keys, args \in MotionArgs :
          add_motion(k, args) =>
              LET fresh == MotionMap(args.positions, args.orientations, args.times)
              IN  /\ D_Has(_motions', k)
                  /\ D_Get(_motions', k) = fresh
                  /\ \A t \in UpdateTimes :
                        get_state(D_Get(_motions', k), t) = get_state(fresh, t)]_vars

\* C17 witness: add_motion has been called for a key that had a motion and
\* whose model an earlier update had moved; the motion under the key is one
\* with a fresh cursor.
C17_Witness ==
    /\ mgr_op.name = "add_motion"
    /\ mgr_op.had_motion
    /\ mgr_err = "none"
    /\ M_Has(_models, mgr_op.key)
    /\ Model_origin(_models[mgr_op.key]) # <<0, 0, 0>>
    /\ D_Get(_motions, mgr_op.key)._orientation.kind = "piecewise"
    /\ D_Get(_motions, mgr_op.key)._orientation.f.last_idx = 0

-----------------------------------------------------------------------------
(* Claims about basis_matrix and Space *)

dot(x, y) == x[1]*y[1] + x[2]*y[2] + x[3]*y[3]

\* the three vectors are unit-length, mutually orthogonal and right-handed
IsRightHandedOrthonormal(basis) ==
    /\ \A i \in 1..3 : ~basis[i].sub /\ dot(basis[i].c, basis[i].c) = 1
    /\ dot(basis[1].c, basis[2].c) = 0
    /\ dot(basis[1].c, basis[3].c) = 0
    /\ dot(basis[2].c, basis[3].c) = 0
    /\ cross(basis[1].c, basis[2].c) = basis[3].c

\* C9: assigning a basis that is not unit-length, mutually orthogonal and
\* right-handed raises BasisError; no such triple is accepted.
C9_InvalidBasisRejected ==
    [][\A basis \in BasisArgs :
          (SetBasis(basis) /\ ~IsRightHandedOrthonormal(basis))
              => space_err' = "BasisError"]_vars

\* the cached inverse is translation_matrix(origin) times the inverse of the
\* basis matrix the Space holds
InverseIsCurrent(s) ==
    (s._basis # None /\ s._translation # None) =>
        /\ inv(s._basis).err = "none"
        /\ s._inverse = matmul(s._translation, inv(s._basis).val)

\* C10: after construction and after every origin or basis assignment the
\* cached inverse belongs to the basis and origin the Space holds, and a
\* basis assignment rejected with BasisError changes nothing.
C10_InverseConsistent ==
    /\ [](InverseIsCurrent(space))
    /\ [][space_err' = "BasisError" => space' = space]_vars

-----------------------------------------------------------------------------
(* Claims about Model *)

\* C11: every index in every stored face refers to an existing vertex.
C11_FaceIndicesInRange ==
    \A f \in 1..Len(model._faces) :
        \A i \in 1..Len(model._faces[f]) :
            /\ 0 <= model._faces[f][i]
            /\ model._faces[f][i] < NumVertices(model)

\* the mean of a non-empty list of points with a whole-number mean
MeanOf(V) ==
    AsTuple([c \in 1..3 |->
        ExactDiv(SumTo(AsTuple([i \in 1..Len(V) |-> V[i][c]]), Len(V)), Len(V))])

\* C12: immediately after Model(vertices=V) the local vertices are V shifted
\* by the centroid of V and the world position is the centroid of V.
C12_OriginIsCentroid ==
    (model_op = "init" /\ model_in # None) =>
        /\ Model_vertices(model) =
              AsTuple([i \in 1..Len(model_in) |->
                  AsTuple([c \in 1..3 |-> model_in[i][c] - MeanOf(model_in)[c]])])
        /\ Model_origin(model) = MeanOf(model_in)

\* C16: change_local_basis(b) with a valid basis b, on a Model whose world
\* basis is valid, leaves world origin and world basis as they were and
\* replaces the local vertices by the inverse of b applied to them.
C16_ChangeLocalBasisFrame ==
    [][\A b \in LocalBases :
          (/\ ChangeLocalBasis(b)
           /\ IsRightHandedOrthonormal(b)
           /\ inv(model._space._basis).err = "none") =>
              /\ Model_origin(model') = Model_origin(model)
              /\ Model_basis(model') = Model_basis(model)
              /\ model'._vertices =
                    matmul(inv(basis_matrix(b).val).val, model._vertices)]_vars

-----------------------------------------------------------------------------
(* Claims about Scene *)

\* the positions of the vertices of the polygon handed to _clip that are at
\* or in front of the clip distance
FrontIndices ==
    {i \in 1..Len(clip_call.face_vertices) :
        clip_call.face_vertices[i][3] >= clip_call.clip_dist}

\* the vertices of the result
OutPoints == {clip_call.out[k] : k \in 1..Len(clip_call.out)}

\* the vertices of the result that are not kept vertices of the polygon
NewPoints == OutPoints \ {clip_call.face_vertices[i] : i \in FrontIndices}

C14_DepthOrderStable ==
    draw_call.pc = "returned" =>
        /\ {draw_call.out[i].idx : i \in 1..Len(draw_call.out)}
              = 0..(Len(draw_call.out) - 1)
        /\ \A i \in 1..Len(draw_call.out) : \A j \in (i + 1)..Len(draw_call.out) :
              /\ draw_call.out[i].depth >= draw_call.out[j].depth
              /\ draw_call.out[i].depth = draw_call.out[j].depth
                    => draw_call.out[i].idx < draw_call.out[j].idx

\* C14 witness: faces of two models were drawn in an order other than the
\* one collected, two of them with equal depth keys and two with different.
C14_Witness ==
    /\ draw_call.pc = "returned"
    /\ Len(draw_call.models) = 2
    /\ \E i \in 1..(Len(draw_call.out) - 1) :
          draw_call.out[i].idx > draw_call.out[i + 1].idx
    /\ \E i \in 1..(Len(draw_call.out) - 1) :
          /\ draw_call.out[i].depth = draw_call.out[i + 1].depth
          /\ draw_call.out[i].colour # draw_call.out[i + 1].colour
    /\ \E i \in 1..(Len(draw_call.out) - 1) :
          draw_call.out[i].depth > draw_call.out[i + 1].depth

\* C18: every vertex _clip returns is a point with z >= clip distance, and
\* with a positive clip plane every point _draw_models hands to project2d
\* has z > 0.
C18_ClippedInFront ==
    /\ clip_call.pc = "returned" =>
          \A k \in 1..Len(clip_call.out) :
              /\ clip_call.out[k] # None
              /\ clip_call.out[k][3] >= clip_call.clip_dist
    /\ (draw_call.pc = "returned" /\ draw_call.cam.clip_plane > 0) =>
          \A i \in 1..Len(draw_call.out) :
              \A k \in 1..Len(draw_call.out[i].verts) :
                  draw_call.out[i].verts[k][3] > 0

\* C18 witness: a polygon of 4 vertices, three of them behind the plane and
\* the first one between two others behind it, has been clipped to a polygon
\* that keeps the vertex in front.
C18_Witness ==
    /\ clip_call.pc = "returned"
    /\ Len(clip_call.face_vertices) = 4
    /\ FrontIndices = {3}
    /\ clip_call.face_vertices[3][3] > clip_call.clip_dist
    /\ Len(clip_call.out) >= 3
    /\ clip_call.face_vertices[3] \in OutPoints

====
